---- MODULE Spec2Model ----
(***************************************************************************)
(* Mutation & normalization pipeline of the Google Ads integration:        *)
(* the Ad facade (ad.py), the Keyword facade (keywords.py), the error      *)
(* normalizer (errors.py) and the headline generation loop                 *)
(* (llm_services.py).                                                      *)
(*                                                                         *)
(* Text is a sequence of one-character strings, so that slicing, length    *)
(* and prefix tests are computed and not assumed. An optional value is     *)
(* None or Some(v).                                                        *)
(***************************************************************************)
EXTENDS Integers, Sequences, FiniteSets, TLC

VARIABLES
    pure,       \* last application of a pure function: validators, truncation
    errors,     \* GoogleAdsAdIntegration.errors
    call,       \* the last call on the Ad facade: inputs, outcome, remote requests
    kw,         \* the GoogleAdsKeywordIntegration instance: client, keywords, match_type, errors
    kwCall,     \* the last call on the Keyword facade
    gen,        \* the run of gen_ad_keyword_headline in progress or last finished
    mgr,        \* a GoogleAdsAdGroupManager: its googleads_campaign_id
    mgrCall,    \* the last ad group creation asked of it
    regen       \* the call of regenerate_headline in progress or last finished

vars == <<pure, errors, call, kw, kwCall, gen, mgr, mgrCall, regen>>

-----------------------------------------------------------------------------
(* Bounds of the model *)

\* longest text of an input headline or description
MaxTextLen == 31
\* input lists have up to MaxListLen items, or one item more than the platform maximum
MaxListLen == 3
\* the errors list of a facade is followed up to this length
MaxErrors == 1
\* most keywords of a keyword facade
MaxKeywords == 3
\* largest explicit max_retries argument of gen_ad_keyword_headline
MaxRetriesArg == 2
\* most headlines in one response of the generative service
MaxCandidates == 2
MaxFailureErrors == 2

(* Program constants *)

HEADLINE_MAX_LENGTH == 30
MIN_HEADLINES == 3
MIN_DESCRIPTIONS == 2
MAX_HEADLINES == 15
MAX_DESCRIPTIONS == 4
\* gen_ad_keyword_headline: max_retries: int = 5
DEFAULT_MAX_RETRIES == 5
\* gen_ad_keyword_headline: len(headline) <= 29
GEN_HEADLINE_LIMIT == 29

-----------------------------------------------------------------------------
(* Helpers: optional values, text *)

None == [none |-> TRUE]
Some(v) == [none |-> FALSE, v |-> v]
IsNone(x) == x.none

Min(a, b) == IF a <= b THEN a ELSE b

\* s[:n] of Python, n >= 0
Slice(s, n) == SubSeq(s, 1, Min(n, Len(s)))

\* s.startswith(p)
StartsWith(s, p) == Len(s) >= Len(p) /\ SubSeq(s, 1, Len(p)) = p

HTTP == <<"h", "t", "t", "p", ":", "/", "/">>
HTTPS == <<"h", "t", "t", "p", "s", ":", "/", "/">>
FTP == <<"f", "t", "p", ":", "/", "/">>

Alphabet == <<"a", "b", "c">>

\* a text of n characters, its i-th character decided by i and the pattern p
Text(n, p) == [i \in 1..n |-> Alphabet[((i + p) % 3) + 1]]

\* the k-th input text: lengths around the headline limit, two patterns
TextOf(k) ==
    LET lens == <<1, HEADLINE_MAX_LENGTH + 1, HEADLINE_MAX_LENGTH, 0,
                  HEADLINE_MAX_LENGTH - 1, MaxTextLen>>
    IN Text(lens[((k - 1) % 6) + 1], ((k - 1) \div 6) % 2)

\* an input item of the web layer: an object with a .text
Item(t) == [text |-> t]

\* a list of n items, the texts rotating from position k
ItemList(n, k) == [i \in 1..n |-> Item(TextOf(i + k))]

\* list lengths from lo up, and one more than the platform takes
ListLens(lo, platformMax) == lo..MaxListLen \cup {platformMax + 1}

\* the lists the facade is called with: from one item short of the minimum
HeadlineLists == {ItemList(n, 0) : n \in ListLens(MIN_HEADLINES - 1, MAX_HEADLINES)}
DescriptionLists == {ItemList(n, 0) : n \in ListLens(MIN_DESCRIPTIONS - 1, MAX_DESCRIPTIONS)}

\* every length and rotation: the inputs of the pure functions
AllHeadlineLists == {ItemList(n, k) : n \in ListLens(0, MAX_HEADLINES), k \in 0..11}
AllDescriptionLists == {ItemList(n, 0) : n \in ListLens(0, MAX_DESCRIPTIONS)}

Urls == {None, Some(<<>>),
         Some(FTP \o <<"x">>), Some(HTTPS \o <<"x">>), Some(HTTP \o <<"x">>),
         Some(HTTP), Some(<<"h", "t", "t", "p", ":", "/">>),
         Some(<<"x">> \o HTTP), Some(<<"H", "T", "T", "P", ":", "/", "/", "x">>),
         Some(<<"h", "t", "t", "p", "s", ":", "/", "x">>)}

-----------------------------------------------------------------------------
(* ad.py: text assets *)

\* GoogleAdsTextAssetCreator.create_text_asset: pinned_field stays unset when falsy
create_text_asset(text, pinned_field) ==
    [text |-> text, pinned_field |-> pinned_field]

truncate_headlines_keep_tail(headlines) ==
    [i \in 1..Len(headlines) |->
        create_text_asset(
            SubSeq(headlines[i].text,
                   Len(headlines[i].text) - Min(HEADLINE_MAX_LENGTH, Len(headlines[i].text)) + 1,
                   Len(headlines[i].text)),
            None)]

\* GoogleAdsTextAssetCreator.truncate_headlines
truncate_headlines(headlines) ==
    [i \in 1..Len(headlines) |->
        create_text_asset(Slice(headlines[i].text, HEADLINE_MAX_LENGTH), None)]

(* ad.py: AdValidator. A validator returns "ok" or the exception it raises. *)

validate_counts_and_only(headlines, descriptions) ==
    IF Len(headlines) < MIN_HEADLINES /\ Len(descriptions) < MIN_DESCRIPTIONS
    THEN "ValueError" ELSE "ok"

\* AdValidator.validate_headlines_and_descriptions
validate_headlines_and_descriptions(headlines, descriptions) ==
    IF Len(headlines) < MIN_HEADLINES THEN "ValueError"
    ELSE IF Len(descriptions) < MIN_DESCRIPTIONS THEN "ValueError"
    ELSE "ok"

validate_url_http_only(url) ==
    IF IsNone(url) \/ url.v = <<>> \/ ~StartsWith(url.v, HTTP)
    THEN "ValueError" ELSE "ok"

\* AdValidator.validate_url
validate_url(url) ==
    IF IsNone(url) \/ url.v = <<>> \/ ~(StartsWith(url.v, HTTP) \/ StartsWith(url.v, HTTPS))
    THEN "ValueError" ELSE "ok"

-----------------------------------------------------------------------------
(* The pure functions applied to inputs drawn from the bounded sets *)

PureIdle == [fn |-> "none"]

ApplyValidateCounts ==
    /\ \E hs \in AllHeadlineLists, ds \in AllDescriptionLists :
          pure' = [fn |-> "validate_headlines_and_descriptions",
                   headlines |-> hs, descriptions |-> ds,
                   out |-> validate_headlines_and_descriptions(hs, ds)]
    /\ UNCHANGED <<errors, call, kw, kwCall, gen, mgr, mgrCall, regen>>

ApplyValidateUrl ==
    /\ \E u \in Urls :
          pure' = [fn |-> "validate_url", url |-> u, out |-> validate_url(u)]
    /\ UNCHANGED <<errors, call, kw, kwCall, gen, mgr, mgrCall, regen>>

\* truncate_headlines(hs), and truncate_headlines applied to its own result
ApplyTruncate ==
    /\ \E hs \in AllHeadlineLists :
          pure' = [fn |-> "truncate_headlines", headlines |-> hs,
                   out |-> truncate_headlines(hs),
                   twice |-> truncate_headlines(truncate_headlines(hs))]
    /\ UNCHANGED <<errors, call, kw, kwCall, gen, mgr, mgrCall, regen>>

-----------------------------------------------------------------------------
(* errors.py: the error normalizer.                                        *)
(* An attribute of a remote object is None when the object lacks it        *)
(* (hasattr is false) and Some(v) when it has it. Messages are atomic      *)
(* strings: nothing slices them.                                           *)

\* str(value) of a detail value: a string stays, a number is printed
PyStr(value) == IF value.t = "str" THEN value.s ELSE ToString(value.n)

extract_error_message_no_fallback(ex) ==
    LET e == ex.error IN
    IF ~IsNone(e.policy_violation_details) THEN e.policy_violation_details.v
    ELSE IF ~IsNone(e.details) THEN e.details.v
    ELSE ""

\* GoogleAdsErrorHandler._extract_error_message
extract_error_message(ex) ==
    LET e == ex.error IN
    IF ~IsNone(e.policy_violation_details) THEN e.policy_violation_details.v
    ELSE IF ~IsNone(e.message) /\ ~IsNone(e.details) THEN e.details.v
    ELSE IF ~IsNone(e.message) /\ e.message.v # "" THEN e.message.v
    ELSE IF ~IsNone(e.details) THEN e.details.v
    ELSE ""

RECURSIVE FlattenFields(_)
\* the field names of every error with a truthy location, in order
FlattenFields(errs) ==
    IF errs = <<>> THEN <<>>
    ELSE (IF Head(errs).location.v = <<>> THEN <<>> ELSE Head(errs).location.v)
         \o FlattenFields(Tail(errs))

\* GoogleAdsErrorHandler._extract_error_fields raises AttributeError when an
\* error has no location attribute: the loop is not guarded
extract_error_fields_raises(ex) ==
    \E i \in 1..Len(ex.failure.errors) : IsNone(ex.failure.errors[i].location)

\* GoogleAdsErrorHandler._extract_error_fields
extract_error_fields(ex) == FlattenFields(ex.failure.errors)

\* GoogleAdsErrorHandler._extract_error_details
extract_error_details(ex) ==
    LET errs == ex.failure.errors IN
    IF errs = <<>> THEN <<>>
    ELSE IF IsNone(errs[1].details) THEN <<>>
    ELSE IF ~errs[1].details.v.convertible THEN <<>>
    ELSE LET d == errs[1].details.v.items
         IN [i \in 1..Len(d) |-> [type_ |-> d[i][1], value |-> PyStr(d[i][2])]]

\* GoogleAdsErrorHandler._extract_trigger
extract_trigger(ex) ==
    LET errs == ex.failure.errors IN
    IF errs = <<>> THEN None
    ELSE IF IsNone(errs[1].trigger) THEN None
    ELSE Some(errs[1].trigger.v)

\* GoogleAdsErrorHandler._extract_location
extract_location(ex) ==
    LET errs == ex.failure.errors IN
    IF errs = <<>> THEN None
    ELSE IF IsNone(errs[1].location) THEN None
    ELSE Some(errs[1].location.v)

\* GoogleAdsErrorHandler.create_error, when it does not raise
create_error(ex, class_name, id, class_id) ==
    [error_request_id |-> ex.request_id,
     error_code |-> ex.error.code,
     error_message |-> extract_error_message(ex),
     fields |-> extract_error_fields(ex),
     class_name |-> class_name,
     id |-> id,
     class_id |-> class_id,
     details |-> extract_error_details(ex),
     trigger |-> extract_trigger(ex),
     location |-> extract_location(ex)]

\* one reported error of a GoogleAdsFailure
ErrorEntry(location, details, trigger) ==
    [location |-> location, details |-> details, trigger |-> trigger]

\* the GoogleAdsException values the remote platform raises at the facades:
\* protobuf failures, every attribute of every entry present
PolicyException ==
    [request_id |-> "req-1",
     error |-> [code |-> "INVALID_ARGUMENT", policy_violation_details |-> None,
                message |-> None, details |-> Some("bad request")],
     failure |-> [errors |-> <<ErrorEntry(Some(<<"operations", "create">>),
                                         None, Some("free")),
                               ErrorEntry(Some(<<>>), None, Some(""))>>]]

QuotaException ==
    [request_id |-> "req-2",
     error |-> [code |-> "RESOURCE_EXHAUSTED", policy_violation_details |-> None,
                message |-> None, details |-> None],
     failure |-> [errors |-> <<>>]]

GoogleAdsExceptions == {PolicyException, QuotaException}

-----------------------------------------------------------------------------
(* ad.py: GoogleAdsAdIntegration, one instance *)

\* the constructor's googleads_account_id and googleads_campaign_id
ACCOUNT_ID == "acct"
CAMPAIGN_ID == "cmp"

\* identifiers the callers pass: absent, or a value
Ids == {None, Some("7")}

\* "not x" of an optional string
Falsy(x) == IsNone(x) \/ x.v = ""

\* the fixed UTM suffix, one token: nothing looks inside it
UTM == <<"?utm_source=google&utm_medium=cpc&utm_campaign={{campaignid}}&utm_term={{keyword}}&utm_content={{creative}}">>

AdUrls == {Some(<<>>), Some(FTP \o <<"x">>), Some(HTTPS \o <<"x">>)}

\* AdData of the web layer; id is None when the object has no id attribute
AdDatas ==
    [id : {Some("ad9")}, url : AdUrls,
     headlines : HeadlineLists, descriptions : DescriptionLists]
    \cup {[id |-> None, url |-> Some(HTTP \o <<"x">>),
           headlines |-> ItemList(MIN_HEADLINES, 1),
           descriptions |-> ItemList(MIN_DESCRIPTIONS, 1)]}

\* Ad of the web layer, as update_responsive_search_ad reads it
Ads == [id : {Some("ad9")}, headlines : HeadlineLists, descriptions : DescriptionLists]

UrlLists == {<<>>, <<HTTPS \o <<"x">>>>, <<FTP \o <<"x">>>>,
             <<HTTPS \o <<"x">>, HTTP \o <<"y">>>>}

\* a resource name the platform returns: collection and trailing id parts
ResourceName(collection, parts) == [collection |-> collection, parts |-> parts]

\* what the remote mutate call does: it returns a result, or raises
Returns(resource_name) == [raises |-> FALSE, resource_name |-> resource_name]
Raises(ex) == [raises |-> TRUE, ex |-> ex]

AdGroupAdOutcomes ==
    {Returns(ResourceName("adGroupAds", <<7, 41>>)),
     Returns(ResourceName("adGroupAds", <<41>>))}
      \cup {Raises(ex) : ex \in GoogleAdsExceptions}

AdOutcomes ==
    {Returns(ResourceName("ads", <<41>>))} \cup {Raises(ex) : ex \in GoogleAdsExceptions}

\* one request to the remote platform
Request(service, operations) ==
    [service |-> service, customer_id |-> ACCOUNT_ID, operations |-> operations]

findall_ad_group_ad_id_any(resource_name) == <<resource_name.parts>>

\* re.findall(r"adGroupAds\/(\d+~\d+)", resource_name): the matches
findall_ad_group_ad_id(resource_name) ==
    IF resource_name.collection = "adGroupAds" /\ Len(resource_name.parts) = 2
    THEN <<resource_name.parts>> ELSE <<>>

validate_ad_input_without_url(ad_group_id, ad) ==
    IF Falsy(ad_group_id) THEN "ValueError"
    ELSE validate_headlines_and_descriptions(ad.headlines, ad.descriptions)

\* GoogleAdsAdIntegration._validate_ad_input
validate_ad_input(ad_group_id, ad) ==
    IF Falsy(ad_group_id) THEN "ValueError"
    ELSE IF validate_url(ad.url) # "ok" THEN "ValueError"
    ELSE validate_headlines_and_descriptions(ad.headlines, ad.descriptions)

\* GoogleAdsAdIntegration._validate_update_input
validate_update_input(ad) ==
    validate_headlines_and_descriptions(ad.headlines, ad.descriptions)

\* [create_text_asset(x.text) for x in items]
TextAssets(items) == [i \in 1..Len(items) |-> create_text_asset(items[i].text, None)]

prepare_ad_group_ad_plain_url(ad_group_id, ad) ==
    [kind |-> "AdGroupAdOperation.create",
     status |-> "ENABLED",
     ad_group |-> <<"customers", ACCOUNT_ID, "adGroups", ad_group_id.v>>,
     final_urls |-> <<ad.url.v>>,
     headlines |-> TextAssets(Slice(ad.headlines, MAX_HEADLINES)),
     descriptions |-> TextAssets(Slice(ad.descriptions, MAX_DESCRIPTIONS))]

\* GoogleAdsAdIntegration._prepare_ad_group_ad
prepare_ad_group_ad(ad_group_id, ad) ==
    [kind |-> "AdGroupAdOperation.create",
     status |-> "ENABLED",
     ad_group |-> <<"customers", ACCOUNT_ID, "adGroups", ad_group_id.v>>,
     final_urls |-> <<ad.url.v \o UTM>>,
     headlines |-> TextAssets(Slice(ad.headlines, MAX_HEADLINES)),
     descriptions |-> TextAssets(Slice(ad.descriptions, MAX_DESCRIPTIONS))]

\* GoogleAdsAdIntegration.add_error: the record it appends
ad_error(ex, ad) ==
    create_error(ex, "Ad", Some(CAMPAIGN_ID), IF IsNone(ad.id) THEN None ELSE Some(ad.id.v))

\* the call record of a validation failure: raised before anything was built
Rejected(op, id, arg) ==
    [op |-> op, id |-> id, arg |-> arg, outcome |-> "ValueError", ret |-> None,
     remote |-> <<>>, errorsBefore |-> errors]

\* GoogleAdsAdIntegration.create_responsive_search_ad
CreateResponsiveSearchAd ==
    \E ad_group_id \in Ids, ad \in AdDatas :
        /\ UNCHANGED <<pure, kw, kwCall, gen, mgr, mgrCall, regen>>
        /\ IF validate_ad_input(ad_group_id, ad) # "ok"
           THEN /\ call' = Rejected("create_responsive_search_ad", ad_group_id, ad)
                /\ UNCHANGED errors
           ELSE \E outcome \in AdGroupAdOutcomes :
                LET request == Request("AdGroupAdService.mutate_ad_group_ads",
                                       <<prepare_ad_group_ad(ad_group_id, ad)>>)
                    found == findall_ad_group_ad_id(outcome.resource_name)
                    done == [op |-> "create_responsive_search_ad", id |-> ad_group_id,
                             arg |-> ad, outcome |-> "returned", ret |-> None,
                             remote |-> <<[request |-> request, result |-> outcome]>>,
                             errorsBefore |-> errors]
                IN IF outcome.raises
                   THEN /\ Len(errors) < MaxErrors
                        /\ errors' = Append(errors, ad_error(outcome.ex, ad))
                        /\ call' = done
                   ELSE /\ UNCHANGED errors
                        /\ call' = IF found = <<>>
                                   THEN [done EXCEPT !.outcome = "IndexError"]
                                   ELSE [done EXCEPT !.ret = Some(found[1])]


\* AdUpdateConfig: each field None unless given
AdUpdateConfig(headlines, descriptions, final_urls) ==
    [headlines |-> headlines, descriptions |-> descriptions, final_urls |-> final_urls]

\* GoogleAdsAdIntegration._prepare_update_operation: the Ad message under update,
\* every field but the resource name at its zero value
prepare_update_operation(googleads_ad_id) ==
    [resource_name |-> <<"customers", ACCOUNT_ID, "ads", googleads_ad_id>>,
     final_urls |-> <<>>,
     responsive_search_ad |-> [headlines |-> <<>>, descriptions |-> <<>>]]

\* GoogleAdsAdIntegration._update_headlines
update_headlines(googleads_ad, headlines) ==
    [googleads_ad EXCEPT !.responsive_search_ad.headlines = truncate_headlines(headlines)]

\* GoogleAdsAdIntegration._update_descriptions
update_descriptions(googleads_ad, descriptions) ==
    [googleads_ad EXCEPT !.responsive_search_ad.descriptions = TextAssets(descriptions)]

\* GoogleAdsAdIntegration._update_final_urls
update_final_urls(googleads_ad, urls) ==
    [googleads_ad EXCEPT !.final_urls = urls]

field_mask_with_urls(ad) ==
    {"final_urls"}
    \cup (IF ad.resource_name # <<>> THEN {"resource_name"} ELSE {})
    \cup (IF ad.responsive_search_ad.headlines # <<>>
          THEN {"responsive_search_ad.headlines"} ELSE {})
    \cup (IF ad.responsive_search_ad.descriptions # <<>>
          THEN {"responsive_search_ad.descriptions"} ELSE {})

\* protobuf_helpers.field_mask(None, ad): the paths of the fields of the message
\* that differ from the zero value of their type
field_mask(ad) ==
    (IF ad.resource_name # <<>> THEN {"resource_name"} ELSE {})
    \cup (IF ad.final_urls # <<>> THEN {"final_urls"} ELSE {})
    \cup (IF ad.responsive_search_ad.headlines # <<>>
          THEN {"responsive_search_ad.headlines"} ELSE {})
    \cup (IF ad.responsive_search_ad.descriptions # <<>>
          THEN {"responsive_search_ad.descriptions"} ELSE {})

updated_ad_always_urls(googleads_ad_id, config) ==
    LET a0 == prepare_update_operation(googleads_ad_id)
        a1 == IF IsNone(config.headlines) THEN a0
              ELSE update_headlines(a0, config.headlines.v)
        a2 == IF IsNone(config.descriptions) THEN a1
              ELSE update_descriptions(a1, config.descriptions.v)
    IN update_final_urls(a2, IF IsNone(config.final_urls) THEN <<<<>>>>
                             ELSE config.final_urls.v)

\* the Ad message _update_responsive_search_ad fills from the config
updated_ad(googleads_ad_id, config) ==
    LET a0 == prepare_update_operation(googleads_ad_id)
        a1 == IF IsNone(config.headlines) THEN a0
              ELSE update_headlines(a0, config.headlines.v)
        a2 == IF IsNone(config.descriptions) THEN a1
              ELSE update_descriptions(a1, config.descriptions.v)
    IN IF IsNone(config.final_urls) THEN a2
       ELSE update_final_urls(a2, config.final_urls.v)

\* the AdOperation _execute_update_operation submits
update_operation(googleads_ad_id, config) ==
    LET ad == updated_ad(googleads_ad_id, config)
    IN [kind |-> "AdOperation.update", update |-> ad, update_mask |-> field_mask(ad)]

UpdateWithUncaught(op, googleads_ad_id, arg, config) ==
    \E outcome \in AdOutcomes :
        /\ call' = [op |-> op, id |-> googleads_ad_id, arg |-> arg,
                    outcome |-> IF outcome.raises THEN "GoogleAdsException" ELSE "returned",
                    ret |-> None,
                    remote |-> <<[request |-> Request("AdService.mutate_ads",
                                     <<update_operation(googleads_ad_id, config)>>),
                                  result |-> outcome]>>,
                    errorsBefore |-> errors]
        /\ UNCHANGED errors

UpdateWithRetry(op, googleads_ad_id, arg, config) ==
    \E outcome \in AdOutcomes, second \in AdOutcomes :
        LET sent(result) == [request |-> Request("AdService.mutate_ads",
                                <<update_operation(googleads_ad_id, config)>>),
                             result |-> result]
        IN /\ call' = [op |-> op, id |-> googleads_ad_id, arg |-> arg,
                       outcome |-> "returned", ret |-> None,
                       remote |-> IF outcome.raises THEN <<sent(outcome), sent(second)>>
                                  ELSE <<sent(outcome)>>,
                       errorsBefore |-> errors]
           /\ IF outcome.raises
              THEN /\ Len(errors) < MaxErrors
                   /\ errors' = Append(errors,
                          create_error(outcome.ex, "Ad", Some(CAMPAIGN_ID), googleads_ad_id))
              ELSE UNCHANGED errors

UpdateWithReplacing(op, googleads_ad_id, arg, config) ==
    \E outcome \in AdOutcomes :
        /\ call' = [op |-> op, id |-> googleads_ad_id, arg |-> arg,
                    outcome |-> "returned", ret |-> None,
                    remote |-> <<[request |-> Request("AdService.mutate_ads",
                                     <<update_operation(googleads_ad_id, config)>>),
                                  result |-> outcome]>>,
                    errorsBefore |-> errors]
        /\ IF outcome.raises
           THEN errors' = <<create_error(outcome.ex, "Ad", Some(CAMPAIGN_ID), googleads_ad_id)>>
           ELSE UNCHANGED errors

\* GoogleAdsAdIntegration._update_responsive_search_ad with
\* _execute_update_operation: one request; a GoogleAdsException is recorded
UpdateWith(op, googleads_ad_id, arg, config) ==
    \E outcome \in AdOutcomes :
        /\ call' = [op |-> op, id |-> googleads_ad_id, arg |-> arg,
                    outcome |-> "returned", ret |-> None,
                    remote |-> <<[request |-> Request("AdService.mutate_ads",
                                     <<update_operation(googleads_ad_id, config)>>),
                                  result |-> outcome]>>,
                    errorsBefore |-> errors]
        /\ IF outcome.raises
           THEN /\ Len(errors) < MaxErrors
                /\ errors' = Append(errors,
                       create_error(outcome.ex, "Ad", Some(CAMPAIGN_ID), googleads_ad_id))
           ELSE UNCHANGED errors

UpdateResponsiveSearchAdUncapped ==
    \E googleads_ad_id \in Ids, ad \in Ads :
        /\ UNCHANGED <<pure, kw, kwCall, gen, mgr, mgrCall, regen>>
        /\ IF Falsy(googleads_ad_id) \/ validate_update_input(ad) # "ok"
           THEN /\ call' = Rejected("update_responsive_search_ad", googleads_ad_id, ad)
                /\ UNCHANGED errors
           ELSE UpdateWith("update_responsive_search_ad", googleads_ad_id, ad,
                    AdUpdateConfig(Some(ad.headlines), Some(ad.descriptions), None))

\* GoogleAdsAdIntegration.update_responsive_search_ad
UpdateResponsiveSearchAd ==
    \E googleads_ad_id \in Ids, ad \in Ads :
        /\ UNCHANGED <<pure, kw, kwCall, gen, mgr, mgrCall, regen>>
        /\ IF Falsy(googleads_ad_id) \/ validate_update_input(ad) # "ok"
           THEN /\ call' = Rejected("update_responsive_search_ad", googleads_ad_id, ad)
                /\ UNCHANGED errors
           ELSE UpdateWith("update_responsive_search_ad", googleads_ad_id, ad,
                    AdUpdateConfig(Some(Slice(ad.headlines, MAX_HEADLINES)),
                                   Some(Slice(ad.descriptions, MAX_DESCRIPTIONS)),
                                   None))

\* GoogleAdsAdIntegration.update_ad_urls: no validation of the id or the urls
UpdateAdUrls ==
    \E googleads_ad_id \in Ids, urls \in UrlLists :
        /\ UNCHANGED <<pure, kw, kwCall, gen, mgr, mgrCall, regen>>
        /\ UpdateWith("update_ad_urls", googleads_ad_id, urls,
                      AdUpdateConfig(None, None, Some(urls)))

\* the configs _update_responsive_search_ad is given: every field unset, set to
\* the empty list, or set to values
AdUpdateConfigs ==
    {AdUpdateConfig(h, d, u) :
        h \in {None, Some(<<>>), Some(ItemList(MIN_HEADLINES, 0))},
        d \in {None, Some(ItemList(MIN_DESCRIPTIONS, 0))},
        u \in {None, Some(<<>>), Some(<<HTTPS \o <<"x">>>>)}}

\* GoogleAdsAdIntegration._update_responsive_search_ad, called with a config
UpdateResponsiveSearchAdConfig ==
    \E googleads_ad_id \in Ids, config \in AdUpdateConfigs :
        /\ UNCHANGED <<pure, kw, kwCall, gen, mgr, mgrCall, regen>>
        /\ UpdateWith("_update_responsive_search_ad", googleads_ad_id, config, config)

AdInit ==
    /\ errors = <<>>
    /\ call = [op |-> "none", id |-> None, arg |-> None, outcome |-> "returned",
               ret |-> None, remote |-> <<>>, errorsBefore |-> <<>>]

-----------------------------------------------------------------------------
(* keywords.py: GoogleAdsKeywordIntegration, one instance *)

AD_GROUP_ID == "ag5"

\* a keyword record of the web layer
Keyword(id, n) == [id |-> id, text |-> Text(n, 0)]

\* n keywords with distinct ids, ascending or descending
KeywordList(n, ascending) ==
    [i \in 1..n |-> Keyword(IF ascending THEN i ELSE n + 1 - i, i)]

KeywordLists == {KeywordList(n, a) : n \in 0..MaxKeywords, a \in BOOLEAN}

\* the facade's match_type: the three of KeywordMatchType, or anything else
MatchTypes == {"EXACT", "BROAD", "PHRASE", "exact"}

\* the return values of the facade's methods
RetNone == [kind |-> "None"]
RetList(items) == [kind |-> "list", items |-> items]
RetTuple(error, pairs) == [kind |-> "tuple", error |-> error, pairs |-> pairs]

\* list(zip(a, b))
Zip(a, b) == [i \in 1..Min(Len(a), Len(b)) |-> <<a[i], b[i]>>]

\* the platform's answer to n operations: one result per operation, in order
CriterionResults(n, base) ==
    [i \in 1..n |-> [resource_name |->
        ResourceName("adGroupCriteria", <<AD_GROUP_ID, base + i>>)]]

CriteriaOutcomes(n) ==
    {[raises |-> FALSE, results |-> CriterionResults(n, base)] : base \in {100, 200}}
      \cup {Raises(ex) : ex \in GoogleAdsExceptions}

create_base_criterion_operation_raw(keyword_text, is_negative) ==
    [kind |-> "AdGroupCriterionOperation.create",
     ad_group |-> <<"customers", ACCOUNT_ID, "adGroups", AD_GROUP_ID>>,
     status |-> "ENABLED",
     text |-> keyword_text,
     negative |-> is_negative,
     match_type |-> kw.match_type]

\* GoogleAdsKeywordIntegration._create_base_criterion_operation
create_base_criterion_operation(keyword_text, is_negative) ==
    [kind |-> "AdGroupCriterionOperation.create",
     ad_group |-> <<"customers", ACCOUNT_ID, "adGroups", AD_GROUP_ID>>,
     status |-> "ENABLED",
     text |-> keyword_text,
     negative |-> is_negative,
     match_type |-> IF kw.match_type \in {"EXACT", "BROAD", "PHRASE"}
                    THEN kw.match_type ELSE "BROAD"]

validate_prerequisites_client_only == kw.client

\* GoogleAdsKeywordIntegration._validate_prerequisites
validate_prerequisites == kw.keywords # <<>> /\ kw.client

process_mutation_response_reversed(results, is_negative) ==
    LET n == Len(kw.keywords)
    IN RetTuple(None, Zip([i \in 1..n |-> kw.keywords[n + 1 - i].id],
                          [i \in 1..Len(results) |-> results[i].resource_name]))

\* GoogleAdsKeywordIntegration._process_mutation_response
process_mutation_response(results, is_negative) ==
    RetTuple(None, Zip([i \in 1..Len(kw.keywords) |-> kw.keywords[i].id],
                       [i \in 1..Len(results) |-> results[i].resource_name]))

\* GoogleAdsKeywordIntegration._batch_mutate_keywords: what it returns when
\* the remote call ends in outcome
batch_mutate_keywords(outcome, is_negative) ==
    IF outcome.raises
    THEN (IF ~is_negative THEN RetTuple(Some(outcome.ex), <<>>) ELSE RetList(<<>>))
    ELSE process_mutation_response(outcome.results, is_negative)

\* add_keywords_to_googleads and add_negative_keywords_to_googleads
AddKeywordsWith(op, is_negative) ==
    /\ UNCHANGED <<pure, errors, call, gen, kw, mgr, mgrCall, regen>>
    /\ IF ~validate_prerequisites
       THEN kwCall' = [op |-> op, keywords |-> kw.keywords, outcome |-> "returned",
                       ret |-> RetNone, remote |-> <<>>,
                       errorsBefore |-> kw.errors, errorsAfter |-> kw.errors]
       ELSE \E outcome \in CriteriaOutcomes(Len(kw.keywords)) :
            LET operations == [i \in 1..Len(kw.keywords) |->
                    create_base_criterion_operation(kw.keywords[i].text, is_negative)]
            IN kwCall' = [op |-> op, keywords |-> kw.keywords, outcome |-> "returned",
                          ret |-> batch_mutate_keywords(outcome, is_negative),
                          remote |-> <<[request |->
                              Request("AdGroupCriterionService.mutate_ad_group_criteria",
                                      operations),
                              result |-> outcome]>>,
                          errorsBefore |-> kw.errors, errorsAfter |-> kw.errors]

\* GoogleAdsKeywordIntegration.add_keywords_to_googleads
AddKeywordsToGoogleads == AddKeywordsWith("add_keywords_to_googleads", FALSE)

\* GoogleAdsKeywordIntegration.add_negative_keywords_to_googleads
AddNegativeKeywordsToGoogleads ==
    AddKeywordsWith("add_negative_keywords_to_googleads", TRUE)

\* what get_keywords_for_ad_group finds: the resource names of the ad
\* group's keywords, or the query fails
KeywordQueryOutcomes ==
    {[raises |-> FALSE,
      rows |-> [i \in 1..n |-> CriterionResults(n, 100)[i].resource_name]] :
        n \in 0..MaxKeywords}
      \cup {Raises(ex) : ex \in GoogleAdsExceptions}

\* GoogleAdsKeywordIntegration._create_remove_operation
create_remove_operation(keyword) ==
    [kind |-> "AdGroupCriterionOperation.remove", remove |-> keyword]

\* GoogleAdsKeywordIntegration.remove_keywords_from_googleads: nothing is
\* caught, so a failure of the query, of the mutate call or of the lookup of
\* a service on a missing client leaves the method as an exception
RemoveKeywordsFromGoogleads ==
    /\ UNCHANGED <<pure, errors, call, gen, kw, mgr, mgrCall, regen>>
    /\ LET done(outcome, remote) ==
                [op |-> "remove_keywords_from_googleads", keywords |-> kw.keywords,
                 outcome |-> outcome, ret |-> RetNone, remote |-> remote,
                 errorsBefore |-> kw.errors, errorsAfter |-> kw.errors]
       IN IF ~kw.client
          THEN kwCall' = done("AttributeError", <<>>)
          ELSE \E found \in KeywordQueryOutcomes :
               LET query == [request |-> Request("GoogleAdsService.search_stream", <<>>),
                             result |-> found]
               IN IF found.raises
                  THEN kwCall' = done("GoogleAdsException", <<query>>)
                  ELSE IF found.rows = <<>>
                  THEN kwCall' = done("returned", <<query>>)
                  ELSE \E outcome \in CriteriaOutcomes(Len(found.rows)) :
                       LET operations == [i \in 1..Len(found.rows) |->
                                             create_remove_operation(found.rows[i])]
                           mutate == [request |-> Request(
                                         "AdGroupCriterionService.mutate_ad_group_criteria",
                                         operations),
                                      result |-> outcome]
                       IN kwCall' = done(IF outcome.raises THEN "GoogleAdsException"
                                         ELSE "returned",
                                         <<query, mutate>>)

KwIdle ==
    [op |-> "none", keywords |-> <<>>, outcome |-> "returned", ret |-> RetNone,
     remote |-> <<>>, errorsBefore |-> <<>>, errorsAfter |-> <<>>]

\* GoogleAdsKeywordIntegration.add_error: the only writer of the errors list,
\* called by no method of the facade
KwAddError ==
    /\ Len(kw.errors) < MaxErrors
    /\ \E ex \in GoogleAdsExceptions :
          kw' = [kw EXCEPT !.errors =
                    Append(@, create_error(ex, "Keyword", Some(CAMPAIGN_ID), None))]
    /\ kwCall' = [KwIdle EXCEPT !.op = "add_error", !.keywords = kw.keywords,
                                !.errorsBefore = kw.errors, !.errorsAfter = kw'.errors]
    /\ UNCHANGED <<pure, errors, call, gen, mgr, mgrCall, regen>>

\* GoogleAdsKeywordIntegration.__init__: keywords None becomes []
KwConstruct ==
    /\ \E client \in BOOLEAN, keywords \in KeywordLists, match_type \in MatchTypes :
          kw' = [client |-> client, keywords |-> keywords,
                 match_type |-> match_type, errors |-> <<>>]
    /\ kwCall' = KwIdle
    /\ UNCHANGED <<pure, errors, call, gen, mgr, mgrCall, regen>>

(* add_keywords_to_googleads step by step, for callers that share one     *)
(* facade: the operations are built, then _batch_mutate_keywords tests    *)
(* keywords and client and sends the request, then the response is        *)
(* processed. Between the steps another caller may assign facade.keywords *)

\* add_keywords_to_googleads up to the call of _batch_mutate_keywords
KwBuild ==
    /\ kwCall.outcome \notin {"built", "in_flight"}
    /\ UNCHANGED <<pure, errors, call, gen, kw, mgr, mgrCall, regen>>
    /\ IF ~validate_prerequisites
       THEN kwCall' = [op |-> "add_keywords_to_googleads", keywords |-> kw.keywords,
                       outcome |-> "returned", ret |-> RetNone, remote |-> <<>>,
                       errorsBefore |-> kw.errors, errorsAfter |-> kw.errors]
       ELSE kwCall' = [op |-> "add_keywords_to_googleads", keywords |-> kw.keywords,
                       outcome |-> "built", ret |-> RetNone, remote |-> <<>>,
                       errorsBefore |-> kw.errors, errorsAfter |-> kw.errors,
                       operations |-> [i \in 1..Len(kw.keywords) |->
                           create_base_criterion_operation(kw.keywords[i].text, FALSE)]]

\* _batch_mutate_keywords up to the remote call: return [], [] when the
\* facade has no keywords (or no client) by now
KwSubmit ==
    /\ kwCall.outcome = "built"
    /\ UNCHANGED <<pure, errors, call, gen, kw, mgr, mgrCall, regen>>
    /\ kwCall' = IF kw.keywords = <<>> \/ ~kw.client
                 THEN [kwCall EXCEPT !.outcome = "returned",
                                     !.ret = RetTuple(RetList(<<>>), <<>>)]
                 ELSE [kwCall EXCEPT !.outcome = "in_flight"]

\* the remote call ends and _batch_mutate_keywords returns
KwReceive ==
    /\ kwCall.outcome = "in_flight"
    /\ UNCHANGED <<pure, errors, call, gen, kw, mgr, mgrCall, regen>>
    /\ \E outcome \in CriteriaOutcomes(Len(kwCall.operations)) :
          kwCall' = [kwCall EXCEPT
                        !.outcome = "returned",
                        !.ret = batch_mutate_keywords(outcome, FALSE),
                        !.remote = <<[request |->
                            Request("AdGroupCriterionService.mutate_ad_group_criteria",
                                    kwCall.operations),
                            result |-> outcome]>>]

\* another caller that holds the facade assigns its keywords attribute
KwSetKeywords ==
    /\ \E keywords \in KeywordLists : kw' = [kw EXCEPT !.keywords = keywords]
    /\ UNCHANGED <<pure, errors, call, gen, kwCall, mgr, mgrCall, regen>>

\* GoogleAdsKeywordIntegration(): every argument at its default
KwInit ==
    /\ kw = [client |-> FALSE, keywords |-> <<>>, match_type |-> "BROAD", errors |-> <<>>]
    /\ kwCall = KwIdle

-----------------------------------------------------------------------------
(* llm_services.py: gen_ad_keyword_headline.                               *)
(* One step of the model is one request to the generative service with the *)
(* scan of its response: the response is the input of that step.           *)

GenKeywords == {"gym", "homecare nurse"}

\* "ShortOne", a candidate of 8 characters
ShortOne == <<"S", "h", "o", "r", "t", "O", "n", "e">>

\* "thisheadlineiswaytoolongforus", a candidate of 29 characters
ThisHeadline ==
    <<"t", "h", "i", "s", "h", "e", "a", "d", "l", "i", "n", "e", "i", "s">> \o
    <<"w", "a", "y", "t", "o", "o", "l", "o", "n", "g", "f", "o", "r", "u", "s">>

\* headlines the service may propose and the caller may already hold
GenCandidates == {ShortOne, ThisHeadline, Text(GEN_HEADLINE_LIMIT + 1, 0)}

\* result.headlines of one schema-validated response
GenResponses == UNION {[1..n -> GenCandidates] : n \in 0..MaxCandidates}

GenExisting == {<<>>, <<ShortOne>>}

\* headline in existing_headlines
InList(x, list) == \E i \in 1..Len(list) : list[i] = x

accepted_below_limit(headline, existing_headlines) ==
    Len(headline) < GEN_HEADLINE_LIMIT /\ ~InList(headline, existing_headlines)

accepted_length_only(headline, existing_headlines) ==
    Len(headline) <= GEN_HEADLINE_LIMIT

\* len(headline) <= 29 and headline not in existing_headlines
accepted(headline, existing_headlines) ==
    Len(headline) <= GEN_HEADLINE_LIMIT /\ ~InList(headline, existing_headlines)

\* the first headline of the response the inner loop returns; None when it
\* runs through
first_accepted(headlines, existing_headlines) ==
    LET ok == {i \in 1..Len(headlines) : accepted(headlines[i], existing_headlines)}
    IN IF ok = {} THEN None
       ELSE Some(headlines[CHOOSE i \in ok : \A j \in ok : i <= j])

range_one_more(g) == g.attempt <= g.max_retries

\* for _ in range(max_retries): another iteration is left
range_has_next(g) == g.attempt < g.max_retries

GenIdle ==
    [pc |-> "idle", keyword |-> "gym", max_retries |-> 0, defaulted |-> FALSE,
     existing_headlines |-> <<>>, attempt |-> 0, requests |-> 0,
     all_rejected |-> TRUE, first |-> <<>>, response |-> <<>>, result |-> None]

\* a call of gen_ad_keyword_headline; max_retries None takes the default
GenCall ==
    /\ gen.pc # "loop"
    /\ \E keyword \in GenKeywords, existing \in GenExisting,
          max_retries \in {None} \cup {Some(n) : n \in 0..MaxRetriesArg} :
          gen' = [GenIdle EXCEPT !.pc = "loop", !.keyword = keyword,
                     !.existing_headlines = existing,
                     !.defaulted = IsNone(max_retries),
                     !.max_retries = IF IsNone(max_retries) THEN DEFAULT_MAX_RETRIES
                                     ELSE max_retries.v]
    /\ UNCHANGED <<pure, errors, call, kw, kwCall, mgr, mgrCall, regen>>

\* one iteration: CLIENT.chat.completions.create, then the scan of result.headlines
\* (first and response keep the responses of the first and the latest request)
GenRequest ==
    /\ gen.pc = "loop"
    /\ range_has_next(gen)
    /\ \E headlines \in GenResponses :
          LET found == first_accepted(headlines, gen.existing_headlines)
              \* history: no headline of this response passed the test of line 306
              rejected_all ==
                  \A i \in 1..Len(headlines) :
                      \/ Len(headlines[i]) > GEN_HEADLINE_LIMIT
                      \/ InList(headlines[i], gen.existing_headlines)
          IN gen' = IF IsNone(found)
                    THEN [gen EXCEPT !.attempt = @ + 1, !.requests = @ + 1,
                             !.response = headlines,
                             !.first = IF gen.requests = 0 THEN headlines ELSE @,
                             !.all_rejected = @ /\ rejected_all]
                    ELSE [gen EXCEPT !.pc = "returned", !.requests = @ + 1,
                             !.response = headlines,
                             !.first = IF gen.requests = 0 THEN headlines ELSE @,
                             !.all_rejected = @ /\ rejected_all,
                             !.result = Some([keyword |-> gen.keyword,
                                              headline |-> found.v])]
    /\ UNCHANGED <<pure, errors, call, kw, kwCall, mgr, mgrCall, regen>>

\* the loop ran out: raise Exception("Failed to generate a valid headline ...")
GenExhaust ==
    /\ gen.pc = "loop"
    /\ ~range_has_next(gen)
    /\ gen' = [gen EXCEPT !.pc = "raised"]
    /\ UNCHANGED <<pure, errors, call, kw, kwCall, mgr, mgrCall, regen>>

-----------------------------------------------------------------------------
(* llm_services.py: regenerate_headline. Its call of                       *)
(* gen_ad_keyword_headline runs as the steps GenRequest and GenExhaust.    *)

\* the items handed to regenerate_headline: {"keyword": ..., "headline": ...}
RegenItems == [keyword : GenKeywords, headline : GenCandidates]

\* the headlines the caller has accepted so far: regenerate_headline is
\* not given them
RegenAccepted == {<<>>, <<ShortOne>>}

RegenIdle ==
    [pc |-> "idle", item |-> [keyword |-> "gym", headline |-> <<>>],
     accepted |-> <<>>, requests |-> 0, result |-> None]

\* regenerate_headline up to its return of the item as it is, or up to its
\* call gen_ad_keyword_headline(content, keyword): max_retries and
\* existing_headlines take their defaults
RegenCall ==
    /\ regen.pc # "calling"
    /\ \E item \in RegenItems, accepted_so_far \in RegenAccepted :
          IF Len(item.headline) <= GEN_HEADLINE_LIMIT
          THEN /\ regen' = [pc |-> "returned", item |-> item,
                            accepted |-> accepted_so_far, requests |-> 0,
                            result |-> Some(item)]
               /\ gen' = GenIdle
          ELSE /\ regen' = [pc |-> "calling", item |-> item,
                            accepted |-> accepted_so_far, requests |-> 0,
                            result |-> None]
               /\ gen' = [GenIdle EXCEPT !.pc = "loop", !.keyword = item.keyword,
                             !.existing_headlines = <<>>, !.defaulted = TRUE,
                             !.max_retries = DEFAULT_MAX_RETRIES]
    /\ UNCHANGED <<pure, errors, call, kw, kwCall, mgr, mgrCall>>

\* gen_ad_keyword_headline came back: the new item is returned, or its
\* exception reaches the except clause, which raises in its turn
RegenReturn ==
    /\ regen.pc = "calling"
    /\ gen.pc \in {"returned", "raised"}
    /\ regen' = IF gen.pc = "returned"
                THEN [regen EXCEPT !.pc = "returned", !.requests = gen.requests,
                         !.result = Some([keyword |-> regen.item.keyword,
                                          headline |-> gen.result.v.headline])]
                ELSE [regen EXCEPT !.pc = "raised", !.requests = gen.requests]
    /\ UNCHANGED <<pure, errors, call, kw, kwCall, gen, mgr, mgrCall>>

-----------------------------------------------------------------------------
(* ad.py: GoogleAdsAdGroupManager, standalone or as the group_manager of a *)
(* GoogleAdsAdIntegration built with the same campaign id                  *)

\* googleads_campaign_id: Optional[str]
CampaignIds == {None, Some(""), Some("cmp"), Some("cmp2")}

\* uuid.uuid4() in the names of the generated ad groups
Uuids == {"uuid-a", "uuid-b"}

\* AdGroupConfig: cpc_bid_micros and tracking_url_template None unless given
AdGroupConfig(name, type_, status, cpc_bid_micros, tracking_url_template) ==
    [name |-> name, type_ |-> type_, status |-> status,
     cpc_bid_micros |-> cpc_bid_micros,
     tracking_url_template |-> tracking_url_template]

\* the configs callers hand to create_ad_group
AdGroupConfigs ==
    {AdGroupConfig(<<"group">>, "SEARCH_STANDARD", status, cpc, template) :
        status \in {"ENABLED", "PAUSED"},
        cpc \in {None, Some(0)},
        template \in {None, Some("http://tracker.example.com/{lpurl}")}}

\* CampaignService.campaign_path(customer_id, campaign_id)
campaign_path(customer_id, campaign_id) ==
    <<"customers", customer_id, "campaigns", campaign_id>>

\* GoogleAdsAdGroupManager._validate_googleads_campaign_id
validate_googleads_campaign_id ==
    IF Falsy(mgr.googleads_campaign_id) THEN "ValueError" ELSE "ok"

create_ad_group_operation_swapped(config) ==
    [kind |-> "AdGroupOperation.create",
     name |-> config.name,
     status |-> config.status,
     type_ |-> config.type_,
     campaign |-> campaign_path(mgr.googleads_campaign_id.v, ACCOUNT_ID),
     cpc_bid_micros |-> config.cpc_bid_micros,
     tracking_url_template |-> config.tracking_url_template]

\* GoogleAdsAdGroupManager._create_ad_group_operation: an optional field of
\* the operation stays unset (None) when the config does not give it
create_ad_group_operation(config) ==
    [kind |-> "AdGroupOperation.create",
     name |-> config.name,
     status |-> config.status,
     type_ |-> config.type_,
     campaign |-> campaign_path(ACCOUNT_ID, mgr.googleads_campaign_id.v),
     cpc_bid_micros |-> config.cpc_bid_micros,
     tracking_url_template |-> config.tracking_url_template]

\* what mutate_ad_groups does: a result naming the ad group, a result naming
\* something else, or a failure
AdGroupOutcomes ==
    {Returns(ResourceName("adGroups", <<77>>)),
     Returns(ResourceName("campaigns", <<77>>))}
      \cup {Raises(ex) : ex \in GoogleAdsExceptions}

\* re.findall(r"adGroups\/(\d+)", resource_name): the matches
findall_ad_group_id(resource_name) ==
    IF resource_name.collection = "adGroups" /\ Len(resource_name.parts) >= 1
    THEN <<resource_name.parts[1]>> ELSE <<>>

MgrIdle ==
    [op |-> "none", arg |-> None, outcome |-> "returned", ret |-> None,
     built |-> <<>>, remote |-> <<>>]

\* GoogleAdsAdGroupManager.create_ad_group, reached by op with config: no
\* exception is caught on the way (built is the history of the operations
\* _create_ad_group_operation made)
CreateAdGroupWith(op, arg, config) ==
    /\ UNCHANGED <<pure, errors, call, kw, kwCall, gen, mgr, regen>>
    /\ IF validate_googleads_campaign_id # "ok"
       THEN mgrCall' = [MgrIdle EXCEPT !.op = op, !.arg = arg, !.outcome = "ValueError"]
       ELSE \E outcome \in AdGroupOutcomes :
            LET operation == create_ad_group_operation(config)
                done == [MgrIdle EXCEPT !.op = op, !.arg = arg,
                            !.built = <<operation>>,
                            !.remote = <<[request |-> Request(
                                             "AdGroupService.mutate_ad_groups",
                                             <<operation>>),
                                          result |-> outcome]>>]
            IN mgrCall' =
                 IF outcome.raises THEN [done EXCEPT !.outcome = "GoogleAdsException"]
                 ELSE IF findall_ad_group_id(outcome.resource_name) = <<>>
                 THEN [done EXCEPT !.outcome = "IndexError"]
                 ELSE [done EXCEPT !.ret =
                          Some(findall_ad_group_id(outcome.resource_name)[1])]

\* GoogleAdsAdGroupManager.create_ad_group
CreateAdGroup ==
    \E config \in AdGroupConfigs : CreateAdGroupWith("create_ad_group", Some(config), config)

\* GoogleAdsAdGroupManager.create_dynamic_ad_group
CreateDynamicAdGroup ==
    \E uuid \in Uuids :
        CreateAdGroupWith("create_dynamic_ad_group", None,
            AdGroupConfig(<<"Dynamic Ad Group #", uuid>>, "SEARCH_DYNAMIC_ADS", "PAUSED",
                          None, None))

\* GoogleAdsAdIntegration.create_googleads_ad_group: the ad is not validated
CreateGoogleadsAdGroup ==
    \E ad \in {a \in AdDatas : a.headlines = ItemList(MIN_HEADLINES, 1)}, uuid \in Uuids :
        CreateAdGroupWith("create_googleads_ad_group", Some(ad),
            AdGroupConfig(<<"Gl-", ad.url, "-", uuid>>, "SEARCH_STANDARD", "ENABLED",
                          Some(10000000), None))

\* GoogleAdsAdIntegration.add_dynamic_googleads_ad_group
AddDynamicGoogleadsAdGroup ==
    \E uuid \in Uuids :
        CreateAdGroupWith("add_dynamic_googleads_ad_group", None,
            AdGroupConfig(<<"Dynamic Ad Group #", uuid>>, "SEARCH_DYNAMIC_ADS", "PAUSED",
                          None, None))

\* GoogleAdsAdGroupManager.__init__ (or GoogleAdsAdIntegration.__init__, which
\* hands its own campaign id to its group_manager)
MgrConstruct ==
    /\ \E campaign_id \in CampaignIds : mgr' = [googleads_campaign_id |-> campaign_id]
    /\ mgrCall' = MgrIdle
    /\ UNCHANGED <<pure, errors, call, kw, kwCall, gen, regen>>

\* GoogleAdsAdGroupManager(client, account): googleads_campaign_id defaults to None
MgrInit ==
    /\ mgr = [googleads_campaign_id |-> None]
    /\ mgrCall = MgrIdle

-----------------------------------------------------------------------------
(* Specifications: one per component, over the same initial state *)

Init ==
    /\ pure = PureIdle
    /\ AdInit
    /\ KwInit
    /\ gen = GenIdle
    /\ MgrInit
    /\ regen = RegenIdle

ValidatorsNext == ApplyValidateCounts \/ ApplyValidateUrl \/ ApplyTruncate

AdNext ==
    \/ CreateResponsiveSearchAd
    \/ UpdateResponsiveSearchAd
    \/ UpdateAdUrls
    \/ UpdateResponsiveSearchAdConfig

KeywordsNext ==
    \/ KwConstruct
    \/ AddKeywordsToGoogleads
    \/ AddNegativeKeywordsToGoogleads
    \/ RemoveKeywordsFromGoogleads
    \/ KwAddError

GenNext == GenCall \/ GenRequest \/ GenExhaust

AdGroupNext ==
    \/ MgrConstruct
    \/ CreateAdGroup
    \/ CreateDynamicAdGroup
    \/ CreateGoogleadsAdGroup
    \/ AddDynamicGoogleadsAdGroup

\* ad group creations on one GoogleAdsAdGroupManager
SpecAdGroup == Init /\ [][AdGroupNext]_vars

\* no method of the Ad facade has been called yet
AdUntouched == errors = <<>> /\ call.op = "none"

\* no ad group manager has been built or used yet
MgrUntouched == MgrInit

\* no keyword facade has been built or used yet
KwUntouched == KwInit

\* the three facades hold no state in common: a run uses one of them
FacadesNext ==
    \/ MgrUntouched /\ KwUntouched /\ AdNext
    \/ AdUntouched /\ KwUntouched /\ AdGroupNext
    \/ AdUntouched /\ MgrUntouched /\ KeywordsNext

\* calls on an Ad facade, on an ad group manager or on a keyword facade
SpecFacades == Init /\ [][FacadesNext]_vars

KeywordsSharedNext ==
    KwConstruct \/ KwBuild \/ KwSubmit \/ KwReceive \/ KwSetKeywords

\* one GoogleAdsKeywordIntegration shared by concurrent callers
SpecKeywordsShared == Init /\ [][KeywordsSharedNext]_vars

RegenNext == RegenCall \/ GenRequest \/ GenExhaust \/ RegenReturn

\* calls of regenerate_headline
SpecRegen == Init /\ [][RegenNext]_vars

\* the pure functions of ad.py
SpecValidators == Init /\ [][ValidatorsNext]_vars

\* calls on one GoogleAdsAdIntegration
SpecAd == Init /\ [][AdNext]_vars

\* calls on one GoogleAdsKeywordIntegration
SpecKeywords == Init /\ [][KeywordsNext]_vars

\* gen_ad_keyword_headline is synchronous code: once called it keeps running,
\* and every request gets its response
SpecGen == Init /\ [][GenNext]_vars /\ WF_vars(GenRequest) /\ WF_vars(GenExhaust)

-----------------------------------------------------------------------------
(* Claims on the keyword facade, under SpecKeywords *)

\* the remote request of the last keyword call succeeded / failed
KwSucceeded == kwCall.remote # <<>> /\ ~kwCall.remote[1].result.raises
KwFailed == kwCall.remote # <<>> /\ kwCall.remote[1].result.raises

\* C1: a keyword batch of N operations that the platform executes, returning
\* one result per operation, comes back from add_keywords_to_googleads as
\* exactly N pairs, pair i being (keywords[i].id, results[i].resource_name).
C1_BatchCorrelation ==
    (kwCall.op = "add_keywords_to_googleads" /\ KwSucceeded) =>
        LET operations == kwCall.remote[1].request.operations
            results == kwCall.remote[1].result.results
            n == Len(operations)
        IN /\ Len(results) = n
           /\ Len(kwCall.keywords) = n
           /\ \A i \in 1..n : operations[i].text = kwCall.keywords[i].text
           /\ kwCall.ret.kind = "tuple"
           /\ Len(kwCall.ret.pairs) = n
           /\ \A i \in 1..n :
                 kwCall.ret.pairs[i] = <<kwCall.keywords[i].id, results[i].resource_name>>

\* a successful batch of MaxKeywords keywords whose ids are not their positions
C1_Witness ==
    /\ kwCall.op = "add_keywords_to_googleads"
    /\ KwSucceeded
    /\ Len(kwCall.keywords) = MaxKeywords
    /\ kwCall.keywords[1].id = MaxKeywords
    /\ Len(kwCall.ret.pairs) = MaxKeywords

\* C2: when add_keywords_to_googleads is called with 3 keywords and the remote
\* call raises GoogleAdsException, the facade's errors list grows by exactly one
\* and the call returns None or an empty correlation list.
C2_FailureRecordedOnce ==
    (kwCall.op = "add_keywords_to_googleads" /\ Len(kwCall.keywords) = 3 /\ KwFailed) =>
        /\ Len(kwCall.errorsAfter) = Len(kwCall.errorsBefore) + 1
        /\ \/ kwCall.ret.kind = "None"
           \/ kwCall.ret.kind = "list" /\ kwCall.ret.items = <<>>
           \/ kwCall.ret.kind = "tuple" /\ kwCall.ret.pairs = <<>>

-----------------------------------------------------------------------------
(* Claims on the Ad facade, under SpecAd *)

AdRemoteRaised == call.remote # <<>> /\ call.remote[1].result.raises

C4_HasScheme(url) ==
    \/ Len(url) >= 7 /\ \A i \in 1..7 : url[i] = HTTP[i]
    \/ Len(url) >= 8 /\ \A i \in 1..8 : url[i] = HTTPS[i]

C4_Violates ==
    \/ /\ call.op = "create_responsive_search_ad"
       /\ \/ IsNone(call.id)
          \/ IsNone(call.arg.url)
          \/ ~C4_HasScheme(call.arg.url.v)
          \/ Len(call.arg.headlines) < 3
          \/ Len(call.arg.descriptions) < 2
    \/ /\ call.op = "update_responsive_search_ad"
       /\ \/ IsNone(call.id)
          \/ Len(call.arg.headlines) < 3
          \/ Len(call.arg.descriptions) < 2

\* C4: when the input of create_responsive_search_ad or
\* update_responsive_search_ad violates a precondition (missing id, URL without
\* http(s) scheme, fewer than 3 headlines, fewer than 2 descriptions), the call
\* raises the validation failure, no remote call was made and the errors list
\* is as it was.
C4_PreconditionFailsFast ==
    C4_Violates =>
        /\ call.outcome = "ValueError"
        /\ call.remote = <<>>
        /\ errors = call.errorsBefore

\* a create with an ftp URL and enough headlines and descriptions, rejected
C4_Witness ==
    /\ call.op = "create_responsive_search_ad"
    /\ ~IsNone(call.id)
    /\ call.arg.url = Some(FTP \o <<"x">>)
    /\ Len(call.arg.headlines) >= 3
    /\ Len(call.arg.descriptions) >= 2
    /\ call.outcome = "ValueError"

\* the headline assets of a submitted operation
SubmittedHeadlines(operation) ==
    IF operation.kind = "AdOperation.update"
    THEN operation.update.responsive_search_ad.headlines
    ELSE operation.headlines

\* C8: every headline text asset of an operation the Ad facade submits, by
\* create_responsive_search_ad as well as by update_responsive_search_ad, has
\* at most 30 characters.
C8_SubmittedHeadlinesWithinLimit ==
    \A r \in 1..Len(call.remote) :
        \A o \in 1..Len(call.remote[r].request.operations) :
            LET hs == SubmittedHeadlines(call.remote[r].request.operations[o])
            IN \A i \in 1..Len(hs) : Len(hs[i].text) <= 30

\* the content paths of an update mask
ContentPaths ==
    {"responsive_search_ad.headlines", "responsive_search_ad.descriptions", "final_urls"}

\* the config of the last update call, as its entry point builds it
C9_Config ==
    IF call.op = "update_ad_urls" THEN AdUpdateConfig(None, None, Some(call.arg))
    ELSE IF call.op = "update_responsive_search_ad"
    THEN AdUpdateConfig(Some(call.arg.headlines), Some(call.arg.descriptions), None)
    ELSE call.arg

\* a sub-field is populated when the config holds a value for it that is not
\* the zero value of its type
C9_Populated(field) == ~IsNone(field) /\ field.v # <<>>

\* C9: the update mask of a submitted Ad update names, among headlines,
\* descriptions and final_urls, exactly the sub-fields the config populated:
\* update_ad_urls gives final_urls and neither headlines nor descriptions.
C9_MaskNamesPopulatedFields ==
    (/\ call.op \in {"update_ad_urls", "update_responsive_search_ad",
                     "_update_responsive_search_ad"}
     /\ call.remote # <<>>) =>
        LET mask == call.remote[1].request.operations[1].update_mask
        IN /\ ("responsive_search_ad.headlines" \in mask)
                  <=> C9_Populated(C9_Config.headlines)
           /\ ("responsive_search_ad.descriptions" \in mask)
                  <=> C9_Populated(C9_Config.descriptions)
           /\ ("final_urls" \in mask) <=> C9_Populated(C9_Config.final_urls)
           /\ (call.op = "update_ad_urls" /\ call.arg # <<>>) =>
                  mask \cap ContentPaths = {"final_urls"}

\* a config with only headlines populated, and headlines the only content path
C9_Witness ==
    /\ call.op = "_update_responsive_search_ad"
    /\ call.remote # <<>>
    /\ C9_Populated(call.arg.headlines)
    /\ IsNone(call.arg.descriptions)
    /\ IsNone(call.arg.final_urls)
    /\ call.remote[1].request.operations[1].update_mask \cap ContentPaths
           = {"responsive_search_ad.headlines"}

-----------------------------------------------------------------------------
(* Claims on the pure functions of ad.py, under SpecValidators *)

\* C5: validate_headlines_and_descriptions fails if and only if there are fewer
\* than 3 headlines or fewer than 2 descriptions; two headlines with three
\* descriptions fail, three headlines with two descriptions pass.
C5_CountsIff ==
    (pure.fn = "validate_headlines_and_descriptions") =>
        /\ (pure.out = "ValueError")
               <=> (Len(pure.headlines) < 3 \/ Len(pure.descriptions) < 2)
        /\ pure.out \in {"ValueError", "ok"}
        /\ (Len(pure.headlines) = 2 /\ Len(pure.descriptions) = 3) => pure.out = "ValueError"
        /\ (Len(pure.headlines) = 3 /\ Len(pure.descriptions) = 2) => pure.out = "ok"

\* two headlines and three descriptions, refused
C5_Witness ==
    /\ pure.fn = "validate_headlines_and_descriptions"
    /\ Len(pure.headlines) = 2
    /\ Len(pure.descriptions) = 3
    /\ pure.out = "ValueError"

\* the url begins with the characters of the scheme, compared one by one
C6_Begins(url, scheme) ==
    /\ Len(url) >= Len(scheme)
    /\ \A i \in 1..Len(scheme) : url[i] = scheme[i]

\* C6: validate_url fails if and only if the url is null, empty, or starts with
\* neither http:// nor https://; "ftp://x" fails and "https://x" passes.
C6_UrlIff ==
    (pure.fn = "validate_url") =>
        /\ (pure.out = "ValueError")
               <=> \/ IsNone(pure.url)
                   \/ Len(pure.url.v) = 0
                   \/ ~(C6_Begins(pure.url.v, HTTP) \/ C6_Begins(pure.url.v, HTTPS))
        /\ pure.out \in {"ValueError", "ok"}
        /\ pure.url = Some(<<"f", "t", "p", ":", "/", "/", "x">>) => pure.out = "ValueError"
        /\ pure.url = Some(<<"h", "t", "t", "p", "s", ":", "/", "/", "x">>) => pure.out = "ok"

\* "https://x", accepted
C6_Witness ==
    /\ pure.fn = "validate_url"
    /\ pure.url = Some(<<"h", "t", "t", "p", "s", ":", "/", "/", "x">>)
    /\ pure.out = "ok"

\* C7: truncate_headlines returns a list of the same length and order, each
\* text of at most 30 characters and equal to the first 30 characters of its
\* input; when every input has at most 30 characters the texts are the inputs,
\* and truncating twice gives what truncating once gives.
C7_TruncateHeadlines ==
    (pure.fn = "truncate_headlines") =>
        /\ Len(pure.out) = Len(pure.headlines)
        /\ \A i \in 1..Len(pure.headlines) :
              LET in == pure.headlines[i].text
                  out == pure.out[i].text
              IN /\ Len(out) <= 30
                 /\ Len(out) = IF Len(in) <= 30 THEN Len(in) ELSE 30
                 /\ \A j \in 1..Len(out) : out[j] = in[j]
        /\ (\A i \in 1..Len(pure.headlines) : Len(pure.headlines[i].text) <= 30) =>
              /\ \A i \in 1..Len(pure.headlines) :
                    pure.out[i].text = pure.headlines[i].text
              /\ pure.twice = pure.out

\* a list with a headline over 30 characters, cut to 30
C7_Witness ==
    /\ pure.fn = "truncate_headlines"
    /\ \E i \in 1..Len(pure.headlines) :
          /\ Len(pure.headlines[i].text) > 30
          /\ Len(pure.out[i].text) = 30

\* a list of several headlines, none over 30 characters, returned as given
C7_WitnessUnchanged ==
    /\ pure.fn = "truncate_headlines"
    /\ Len(pure.headlines) >= 2
    /\ \A i \in 1..Len(pure.headlines) : Len(pure.headlines[i].text) <= 30
    /\ pure.twice = pure.out

-----------------------------------------------------------------------------
(* Claims on gen_ad_keyword_headline, under SpecGen *)

\* the state of the run is sound: the requests made, and how it ended
C10_Bounded ==
    /\ gen.requests <= gen.max_retries
    /\ gen.defaulted => gen.max_retries = 5
    /\ gen.pc = "raised" =>
          /\ gen.requests = gen.max_retries
          /\ gen.all_rejected
          /\ IsNone(gen.result)
    /\ gen.pc = "returned" =>
          /\ gen.requests >= 1
          /\ ~gen.all_rejected
          /\ ~IsNone(gen.result)
          /\ Len(gen.result.v.headline) <= 29
          /\ ~InList(gen.result.v.headline, gen.existing_headlines)

\* C10: for every retry bound and every sequence of responses,
\* gen_ad_keyword_headline ends after at most max_retries requests: it returns
\* an accepted headline or, every candidate of every request rejected, raises
\* after exactly max_retries requests (none when max_retries is 0); the default
\* bound is 5.
C10_TerminatesWithinBound ==
    /\ []C10_Bounded
    /\ (gen.pc = "loop") ~> (gen.pc \in {"returned", "raised"})

\* a run with max_retries = 2 that raised after two requests
C10_Witness ==
    /\ gen.pc = "raised"
    /\ gen.max_retries = 2
    /\ gen.requests = 2

-----------------------------------------------------------------------------
(* C11: every headline gen_ad_keyword_headline returns has at most 29       *)
(* characters and is not one of existing_headlines, it is a candidate of    *)
(* the response just scanned and no earlier candidate of that response      *)
(* passed the test, and the returned record carries the caller's keyword.   *)
C11_ReturnedHeadlineAccepted ==
    gen.pc = "returned" =>
        /\ ~IsNone(gen.result)
        /\ Len(gen.result.v.headline) <= 29
        /\ \A i \in 1..Len(gen.existing_headlines) :
              gen.existing_headlines[i] # gen.result.v.headline
        /\ gen.result.v.keyword = gen.keyword
        /\ \E i \in 1..Len(gen.response) :
              /\ gen.response[i] = gen.result.v.headline
              /\ \A j \in 1..(i - 1) :
                    \/ Len(gen.response[j]) > 29
                    \/ \E k \in 1..Len(gen.existing_headlines) :
                          gen.existing_headlines[k] = gen.response[j]

\* a call that returned the second candidate of a response whose first one
\* the caller already held, after a request whose candidates all failed
C11_Witness ==
    /\ gen.pc = "returned"
    /\ gen.requests = 2
    /\ gen.keyword = "homecare nurse"
    /\ Len(gen.response) = 2
    /\ InList(gen.response[1], gen.existing_headlines)
    /\ gen.result.v.headline = gen.response[2]

-----------------------------------------------------------------------------
\* a candidate of 30 characters, one over the limit
OverLength == Text(GEN_HEADLINE_LIMIT + 1, 0)

\* the second request of a call that allows two, after the first response
\* held the one candidate c1, answered with the one candidate c2
C12_Second(c1, c2) ==
    /\ gen.pc # "idle"
    /\ gen.max_retries >= 2
    /\ gen.requests = 2
    /\ gen.first = <<c1>>
    /\ gen.response = <<c2>>

\* the first request of a call that allows two, answered with the one candidate c
C12_First(c) ==
    /\ gen.pc # "idle"
    /\ gen.max_retries >= 2
    /\ gen.requests = 1
    /\ gen.first = <<c>>

(* C12 as stated: "thisheadlineiswaytoolongforus" on the first request is   *)
(* rejected, and "ShortOne" on the second request is returned.              *)
C12_AsStated ==
    /\ C12_First(ThisHeadline) => gen.pc = "loop"
    /\ C12_Second(ThisHeadline, ShortOne) /\ ~InList(ShortOne, gen.existing_headlines)
          => gen.pc = "returned" /\ gen.result.v.headline = ShortOne

(* C12: with max_retries >= 2, a candidate of 30 characters on the first    *)
(* request is rejected and "ShortOne" on the second request is returned by  *)
(* the second attempt; "thisheadlineiswaytoolongforus" has 29 characters    *)
(* and is returned by the first request; two over-length candidates with    *)
(* max_retries = 2 end in the permanent failure.                            *)
C12_RetryThenReturn ==
    /\ [](C12_First(OverLength) => gen.pc = "loop" /\ gen.attempt = 1)
    /\ [](C12_Second(OverLength, ShortOne) /\ ~InList(ShortOne, gen.existing_headlines)
            => /\ gen.pc = "returned"
               /\ gen.attempt = 1
               /\ gen.result.v.headline = ShortOne)
    /\ [](C12_First(ThisHeadline) /\ ~InList(ThisHeadline, gen.existing_headlines)
            => gen.pc = "returned" /\ gen.result.v.headline = ThisHeadline)
    /\ [](C12_Second(OverLength, OverLength) /\ gen.max_retries = 2
            => gen.pc \in {"loop", "raised"} /\ IsNone(gen.result))
    /\ (C12_Second(OverLength, OverLength) /\ gen.max_retries = 2
            ~> gen.pc = "raised")

\* the second attempt returned "ShortOne" after the 30 characters were rejected
C12_Witness ==
    /\ C12_Second(OverLength, ShortOne)
    /\ gen.pc = "returned"
    /\ gen.result.v.headline = ShortOne

-----------------------------------------------------------------------------
(* errors.py: create_error applied to failures of every shape, attributes  *)
(* missing included (the objects tests and wrappers hand to it)            *)

\* ex.error with each of its optional attributes present or missing
ErrorParts ==
    [code : {"INVALID_ARGUMENT"},
     policy_violation_details : {None, Some("Trademarks")},
     message : {None, Some(""), Some("quota exceeded")},
     details : {None, Some("bad request")}]

\* error.details: an object without to_dict, or one whose to_dict gives a dict
DetailValues ==
    {[convertible |-> FALSE, items |-> <<>>],
     [convertible |-> TRUE, items |-> <<<<"quota", [t |-> "num", n |-> 3]>>>>]}

\* the entries of failure.errors: location missing, unset or set; details
\* and trigger missing or present
ErrorEntries ==
    {ErrorEntry(location, details, trigger) :
        location \in {None, Some(<<>>), Some(<<"operations", "create">>), Some(<<"ad">>)},
        details \in {None} \cup {Some(d) : d \in DetailValues},
        trigger \in {None, Some("free")}}

FailureShapes ==
    {[request_id |-> "req-3", error |-> e, failure |-> [errors |-> errs]] :
        e \in ErrorParts,
        errs \in UNION {[1..n -> ErrorEntries] : n \in 0..MaxFailureErrors}}

\* GoogleAdsErrorHandler.create_error as a call: the record, or the
\* AttributeError that _extract_error_fields lets through
create_error_call(ex, class_name, id, class_id) ==
    IF extract_error_fields_raises(ex)
    THEN [raised |-> TRUE, exc |-> "AttributeError"]
    ELSE [raised |-> FALSE, exc |-> "", ret |-> create_error(ex, class_name, id, class_id)]

ApplyCreateError ==
    /\ pure = PureIdle
    /\ \E ex \in FailureShapes :
          pure' = [fn |-> "create_error", ex |-> ex,
                   out |-> create_error_call(ex, "Ad", Some(CAMPAIGN_ID), None)]
    /\ UNCHANGED <<errors, call, kw, kwCall, gen, mgr, mgrCall, regen>>

ErrorsNext == ApplyCreateError

\* one call of GoogleAdsErrorHandler.create_error
SpecErrors == Init /\ [][ErrorsNext]_vars

-----------------------------------------------------------------------------
RECURSIVE C13_Concat(_)
\* the field names of the locations of the errors, in error order and
\* element order; an error without location adds nothing
C13_Concat(errs) ==
    IF errs = <<>> THEN <<>>
    ELSE (IF IsNone(Head(errs).location) THEN <<>> ELSE Head(errs).location.v)
         \o C13_Concat(Tail(errs))

(* C13: create_error does not raise, and fields is the concatenation, in    *)
(* error order and element order, of the field names of the location of     *)
(* every error; an error without location contributes nothing.              *)
C13_FieldsConcatenated ==
    pure.fn = "create_error" =>
        /\ ~pure.out.raised
        /\ pure.out.ret.fields = C13_Concat(pure.ex.failure.errors)

\* the same failure with every optional attribute that tier does not read
\* made present
C14_MessageOnly(ex) ==
    [ex EXCEPT !.failure.errors =
        <<ErrorEntry(Some(<<"ad">>), Some([convertible |-> TRUE, items |-> <<>>]),
                     Some("free"))>>]

C14_FirstErrorOnly(ex) ==
    [ex EXCEPT !.error.policy_violation_details = Some("Trademarks"),
               !.error.message = Some("quota exceeded"),
               !.error.details = Some("bad request")]

C14_DetailsOnly(ex) ==
    [C14_FirstErrorOnly(ex) EXCEPT !.failure.errors =
        [i \in 1..Len(@) |-> [@[i] EXCEPT !.location = Some(<<"ad">>),
                                          !.trigger = Some("free")]]]

C14_TriggerOnly(ex) ==
    [C14_FirstErrorOnly(ex) EXCEPT !.failure.errors =
        [i \in 1..Len(@) |->
            [@[i] EXCEPT !.location = Some(<<"ad">>),
                         !.details = Some([convertible |-> TRUE, items |-> <<>>])]]]

C14_LocationOnly(ex) ==
    [C14_FirstErrorOnly(ex) EXCEPT !.failure.errors =
        [i \in 1..Len(@) |->
            [@[i] EXCEPT !.trigger = Some("free"),
                         !.details = Some([convertible |-> TRUE, items |-> <<>>])]]]

(* C14: whatever optional attributes the failure lacks, create_error        *)
(* returns a record without raising, and every tier (message, fields,       *)
(* details, trigger, location) has the value it has when the attributes     *)
(* the other tiers read are present.                                        *)
C14_TiersIndependent ==
    pure.fn = "create_error" =>
        /\ ~pure.out.raised
        /\ pure.out.ret.error_message = extract_error_message(C14_MessageOnly(pure.ex))
        /\ pure.out.ret.fields = C13_Concat(C14_LocationOnly(pure.ex).failure.errors)
        /\ pure.out.ret.details = extract_error_details(C14_DetailsOnly(pure.ex))
        /\ pure.out.ret.trigger = extract_trigger(C14_TriggerOnly(pure.ex))
        /\ pure.out.ret.location = extract_location(C14_LocationOnly(pure.ex))

(* C15 as stated: the message is the policy-violation display name, else    *)
(* the details field, else the empty string.                                *)
C15_AsStated ==
    pure.fn = "create_error" /\ ~pure.out.raised =>
        pure.out.ret.error_message =
            (IF ~IsNone(pure.ex.error.policy_violation_details)
             THEN pure.ex.error.policy_violation_details.v
             ELSE IF ~IsNone(pure.ex.error.details) THEN pure.ex.error.details.v
             ELSE "")

(* C15: the message is the policy-violation display name when the error     *)
(* has policy-violation details; otherwise the details field when it has    *)
(* one; otherwise the error's message when it has one; otherwise the empty  *)
(* string.                                                                  *)
C15_MessageTiers ==
    pure.fn = "create_error" /\ ~pure.out.raised =>
        pure.out.ret.error_message =
            (IF ~IsNone(pure.ex.error.policy_violation_details)
             THEN pure.ex.error.policy_violation_details.v
             ELSE IF ~IsNone(pure.ex.error.details) THEN pure.ex.error.details.v
             ELSE IF ~IsNone(pure.ex.error.message) THEN pure.ex.error.message.v
             ELSE "")

\* an error with a message and neither policy-violation details nor details
C15_Witness ==
    /\ pure.fn = "create_error"
    /\ ~pure.out.raised
    /\ IsNone(pure.ex.error.policy_violation_details)
    /\ IsNone(pure.ex.error.details)
    /\ pure.ex.error.message = Some("quota exceeded")
    /\ pure.out.ret.error_message = "quota exceeded"

-----------------------------------------------------------------------------
\* the mutate requests the last call of the keyword facade sent
C16_Mutates ==
    {i \in 1..Len(kwCall.remote) :
        kwCall.remote[i].request.service =
            "AdGroupCriterionService.mutate_ad_group_criteria"}

\* the last call left the facade's keywords and errors as they were
C16_Untouched ==
    /\ kw.keywords = kwCall.keywords
    /\ kw.errors = kwCall.errorsBefore
    /\ kwCall.errorsAfter = kwCall.errorsBefore

(* C16: with an empty keyword list add_keywords_to_googleads and            *)
(* add_negative_keywords_to_googleads, and remove_keywords_from_googleads   *)
(* when the ad group has no keywords, send no mutate request, return None   *)
(* and leave keywords and errors unchanged.                                 *)
C16_EmptyIsNoOp ==
    /\ (/\ kwCall.op \in {"add_keywords_to_googleads",
                          "add_negative_keywords_to_googleads"}
        /\ kwCall.keywords = <<>>)
         => /\ kwCall.remote = <<>>
            /\ kwCall.outcome = "returned"
            /\ kwCall.ret = RetNone
            /\ C16_Untouched
    /\ (/\ kwCall.op = "remove_keywords_from_googleads"
        /\ Len(kwCall.remote) >= 1
        /\ ~kwCall.remote[1].result.raises
        /\ kwCall.remote[1].result.rows = <<>>)
         => /\ C16_Mutates = {}
            /\ kwCall.outcome = "returned"
            /\ kwCall.ret = RetNone
            /\ C16_Untouched

\* an add on a facade that has a client, one recorded error and no keywords
C16_Witness ==
    /\ kwCall.op = "add_negative_keywords_to_googleads"
    /\ kw.client
    /\ kw.keywords = <<>>
    /\ kw.errors # <<>>
    /\ kwCall.ret = RetNone

\* a remove on an ad group without keywords, by a facade that holds keywords
C16_WitnessRemove ==
    /\ kwCall.op = "remove_keywords_from_googleads"
    /\ kwCall.outcome = "returned"
    /\ Len(kwCall.remote) = 1
    /\ kw.keywords # <<>>

-----------------------------------------------------------------------------
\* the create operations of the batch the last add call submitted
C20_Batch ==
    IF /\ kwCall.op \in {"add_keywords_to_googleads",
                          "add_negative_keywords_to_googleads"}
       /\ kwCall.remote # <<>>
    THEN kwCall.remote[1].request.operations
    ELSE <<>>

(* C20: every keyword create operation has match type EXACT, BROAD or       *)
(* PHRASE when the facade's match_type is that value and BROAD for every    *)
(* other value, and the operations of one batch all have one match type.    *)
C20_MatchTypeMapped ==
    \A i \in 1..Len(C20_Batch) :
        /\ kw.match_type = "EXACT" => C20_Batch[i].match_type = "EXACT"
        /\ kw.match_type = "BROAD" => C20_Batch[i].match_type = "BROAD"
        /\ kw.match_type = "PHRASE" => C20_Batch[i].match_type = "PHRASE"
        /\ kw.match_type \notin {"EXACT", "BROAD", "PHRASE"}
              => C20_Batch[i].match_type = "BROAD"
        /\ C20_Batch[i].match_type = C20_Batch[1].match_type

\* a batch of several operations built by a facade with an unknown match type
C20_Witness ==
    /\ Len(C20_Batch) >= 2
    /\ kw.match_type = "exact"
    /\ C20_Batch[2].match_type = "BROAD"

-----------------------------------------------------------------------------
(* C18: the create operation create_responsive_search_ad submits carries    *)
(* exactly one final URL: the input ad.url followed by the fixed UTM        *)
(* suffix, whose placeholders {{campaignid}}, {{keyword}} and {{creative}}  *)
(* are still written out, unresolved.                                       *)
C18_FinalUrlCarriesUtm ==
    (call.op = "create_responsive_search_ad" /\ call.remote # <<>>) =>
        LET operations == call.remote[1].request.operations
        IN /\ Len(operations) = 1
           /\ Len(operations[1].final_urls) = 1
           /\ operations[1].final_urls[1] =
                 Append(call.arg.url.v,
                        "?utm_source=google&utm_medium=cpc&utm_campaign={{campaignid}}&utm_term={{keyword}}&utm_content={{creative}}")

\* a create call that reached the platform with the URL https://x
C18_Witness ==
    /\ call.op = "create_responsive_search_ad"
    /\ call.remote # <<>>
    /\ call.arg.url = Some(HTTPS \o <<"x">>)
    /\ Len(call.remote[1].request.operations[1].final_urls[1]) = Len(HTTPS) + 2

\* a call of update_responsive_search_ad whose input passes the validation
C19_Validated ==
    /\ call.op = "update_responsive_search_ad"
    /\ ~IsNone(call.id)
    /\ Len(call.arg.headlines) >= 3
    /\ Len(call.arg.descriptions) >= 2

(* C19: for validated input with n headlines and m descriptions the update  *)
(* operation update_responsive_search_ad submits carries the first          *)
(* min(n, 15) headlines (each text cut to its first 30 characters) and the  *)
(* first min(m, 4) descriptions, in input order, and the call does not      *)
(* fail, whatever n and m.                                                  *)
C19_UpdateCapped ==
    C19_Validated =>
        /\ call.outcome = "returned"
        /\ Len(call.remote) = 1
        /\ Len(call.remote[1].request.operations) = 1
        /\ LET sent == call.remote[1].request.operations[1].update.responsive_search_ad
               hs == call.arg.headlines
               ds == call.arg.descriptions
           IN /\ Len(sent.headlines) = (IF Len(hs) < 15 THEN Len(hs) ELSE 15)
              /\ Len(sent.descriptions) = (IF Len(ds) < 4 THEN Len(ds) ELSE 4)
              /\ \A i \in 1..Len(sent.headlines) :
                    sent.headlines[i].text =
                        (IF Len(hs[i].text) <= 30 THEN hs[i].text
                         ELSE SubSeq(hs[i].text, 1, 30))
              /\ \A i \in 1..Len(sent.descriptions) :
                    sent.descriptions[i].text = ds[i].text

\* an update with 16 headlines and 5 descriptions that went through
C19_Witness ==
    /\ C19_Validated
    /\ Len(call.arg.headlines) = 16
    /\ Len(call.arg.descriptions) = 5
    /\ call.outcome = "returned"
    /\ Len(call.remote[1].request.operations[1].update.responsive_search_ad.headlines) = 15
    /\ Len(call.remote[1].request.operations[1].update.responsive_search_ad.descriptions) = 4

-----------------------------------------------------------------------------
\* the last call asked the manager for an ad group
C17_Called ==
    mgrCall.op \in {"create_ad_group", "create_dynamic_ad_group",
                    "create_googleads_ad_group", "add_dynamic_googleads_ad_group"}

(* C17: on a manager whose campaign id is null, create_ad_group,            *)
(* create_dynamic_ad_group and create_googleads_ad_group fail with the      *)
(* ValueError of the missing campaign before an operation is built and      *)
(* before any remote call; with a campaign id set, the one operation built  *)
(* and submitted names the campaign path of that account and campaign.      *)
C17_CampaignRequired ==
    C17_Called =>
        /\ IsNone(mgr.googleads_campaign_id) =>
              /\ mgrCall.outcome = "ValueError"
              /\ mgrCall.built = <<>>
              /\ mgrCall.remote = <<>>
        /\ mgrCall.outcome # "ValueError" =>
              /\ ~IsNone(mgr.googleads_campaign_id)
              /\ Len(mgrCall.built) = 1
              /\ mgrCall.built[1].campaign =
                    <<"customers", ACCOUNT_ID, "campaigns", mgr.googleads_campaign_id.v>>
              /\ Len(mgrCall.remote) = 1
              /\ mgrCall.remote[1].request.operations = mgrCall.built
        /\ (~IsNone(mgr.googleads_campaign_id) /\ mgr.googleads_campaign_id.v # "")
              => mgrCall.outcome # "ValueError"

\* create_googleads_ad_group on a facade without campaign id
C17_Witness ==
    /\ mgrCall.op = "create_googleads_ad_group"
    /\ IsNone(mgr.googleads_campaign_id)
    /\ mgrCall.outcome = "ValueError"

\* an ad group created in campaign cmp2
C17_WitnessCreated ==
    /\ mgrCall.op = "create_dynamic_ad_group"
    /\ mgr.googleads_campaign_id = Some("cmp2")
    /\ mgrCall.ret = Some(77)

-----------------------------------------------------------------------------
\* the platform executed the create of the last Ad call and named its result
\* in another form than adGroupAds/N~M
C21_AdMismatch ==
    /\ call.op = "create_responsive_search_ad"
    /\ call.remote # <<>>
    /\ ~call.remote[1].result.raises
    /\ \/ call.remote[1].result.resource_name.collection # "adGroupAds"
       \/ Len(call.remote[1].result.resource_name.parts) # 2

\* the same for the ad group the last manager call created: not adGroups/N
C21_AdGroupMismatch ==
    /\ C17_Called
    /\ mgrCall.remote # <<>>
    /\ ~mgrCall.remote[1].result.raises
    /\ mgrCall.remote[1].result.resource_name.collection # "adGroups"

(* C21: when the remote call succeeds and the resource name it returns     *)
(* does not have the form of its kind, create_responsive_search_ad and     *)
(* create_ad_group leave with the IndexError of the failed extraction:     *)
(* nothing is returned and the errors list is as before the call.          *)
C21_MismatchRaises ==
    /\ C21_AdMismatch =>
          /\ call.outcome = "IndexError"
          /\ IsNone(call.ret)
          /\ errors = call.errorsBefore
    /\ C21_AdGroupMismatch =>
          /\ mgrCall.outcome = "IndexError"
          /\ IsNone(mgrCall.ret)
          /\ errors = <<>>

\* a create whose result came back as adGroupAds/41, on a facade that had
\* recorded an error before
C21_Witness ==
    /\ C21_AdMismatch
    /\ call.errorsBefore # <<>>
    /\ call.outcome = "IndexError"

\* an ad group whose result came back as campaigns/77
C21_WitnessAdGroup ==
    /\ C21_AdGroupMismatch
    /\ mgrCall.op = "create_ad_group"
    /\ mgrCall.outcome = "IndexError"

-----------------------------------------------------------------------------
\* the remote mutation of the call that ends this step raised
C22_Raised == call'.remote # <<>> /\ call'.remote[1].result.raises

-----------------------------------------------------------------------------
\* the mutate requests of the last keyword call that the platform failed
C23_KwFailedMutates ==
    {i \in 1..Len(kwCall.remote) :
        /\ kwCall.remote[i].request.service =
              "AdGroupCriterionService.mutate_ad_group_criteria"
        /\ kwCall.remote[i].result.raises}

(* C23: at every mutation entry point of every facade, ad group creation   *)
(* and keyword removal included, a GoogleAdsException of the remote mutate *)
(* call is caught: the call returns without exception, with None or an     *)
(* empty result, and one normalized error is added to the errors list.     *)
C23_RemoteFailureCaughtEverywhere ==
    /\ (call.remote # <<>> /\ call.remote[1].result.raises) =>
          /\ call.outcome = "returned"
          /\ IsNone(call.ret)
          /\ Len(errors) = Len(call.errorsBefore) + 1
    /\ (mgrCall.remote # <<>> /\ mgrCall.remote[1].result.raises) =>
          /\ mgrCall.outcome = "returned"
          /\ IsNone(mgrCall.ret)
          /\ Len(errors) = 1
    /\ C23_KwFailedMutates # {} =>
          /\ kwCall.outcome = "returned"
          /\ kwCall.ret \in {RetNone, RetList(<<>>)}
                \/ (kwCall.ret.kind = "tuple" /\ kwCall.ret.pairs = <<>>)
          /\ Len(kwCall.errorsAfter) = Len(kwCall.errorsBefore) + 1

-----------------------------------------------------------------------------
(* C24: a facade call (ad create, ad update, ad group create, keyword      *)
(* batch add, keyword remove) sends its mutate request at most once, also  *)
(* when the request fails, and records a failure at most once.             *)
C24_AtMostOnce ==
    /\ Len(call.remote) <= 1
    /\ Len(mgrCall.remote) <= 1
    /\ Cardinality(C16_Mutates) <= 1
    /\ Len(errors) <= Len(call.errorsBefore) + 1
    /\ call.op = "none" => Len(errors) = 0
    /\ Len(kwCall.errorsAfter) <= Len(kwCall.errorsBefore) + 1
    /\ (call.remote # <<>> /\ call.remote[1].result.raises)
          => Len(call.remote) = 1 /\ Len(errors) = Len(call.errorsBefore) + 1

\* an update whose one request failed and was recorded once
C24_Witness ==
    /\ call.op = "update_responsive_search_ad"
    /\ Len(call.remote) = 1
    /\ call.remote[1].result.raises
    /\ Len(errors) = Len(call.errorsBefore) + 1

\* a keyword batch whose one request failed
C24_WitnessKeywords ==
    /\ kwCall.op = "add_keywords_to_googleads"
    /\ C23_KwFailedMutates = {1}
    /\ Len(kwCall.remote) = 1

-----------------------------------------------------------------------------
(* C25: the pairs add_keywords_to_googleads returns correlate operation i  *)
(* of the batch it submitted (built from keyword i of the list it read)    *)
(* with result i, also when another caller changed the facade's keywords   *)
(* list between the building of the operations and the response.           *)
C25_CorrelatesSubmitted ==
    (/\ kwCall.op = "add_keywords_to_googleads"
     /\ kwCall.outcome = "returned"
     /\ kwCall.remote # <<>>
     /\ ~kwCall.remote[1].result.raises) =>
        /\ kwCall.ret.kind = "tuple"
        /\ Len(kwCall.ret.pairs) = Len(kwCall.remote[1].request.operations)
        /\ \A i \in 1..Len(kwCall.ret.pairs) :
              /\ kwCall.remote[1].request.operations[i].text = kwCall.keywords[i].text
              /\ kwCall.ret.pairs[i] =
                    <<kwCall.keywords[i].id,
                      kwCall.remote[1].result.results[i].resource_name>>

-----------------------------------------------------------------------------
\* the details the first error of the failure gives: one entry per key of
\* its detail map, the value as a string; nothing without such a map
C26_Expected(ex) ==
    IF ex.failure.errors = <<>> THEN <<>>
    ELSE IF IsNone(ex.failure.errors[1].details) THEN <<>>
    ELSE IF ~ex.failure.errors[1].details.v.convertible THEN <<>>
    ELSE LET items == ex.failure.errors[1].details.v.items
         IN [i \in 1..Len(items) |->
                [type_ |-> items[i][1],
                 value |-> IF items[i][2].t = "str" THEN items[i][2].s
                           ELSE ToString(items[i][2].n)]]

(* C26: create_error does not raise, and details holds one {type, value}   *)
(* entry per key of the detail map of the first reported error, the value  *)
(* as a string; details is empty when the failure has no errors, the first *)
(* error has no details or its detail map cannot be converted.             *)
C26_DetailsFromFirstError ==
    pure.fn = "create_error" =>
        /\ ~pure.out.raised
        /\ pure.out.ret.details = C26_Expected(pure.ex)

-----------------------------------------------------------------------------
\* the config of the last update call
C27_Config ==
    IF call.op = "update_ad_urls" THEN AdUpdateConfig(None, None, Some(call.arg))
    ELSE call.arg

\* a field of a config that is set to the empty list
C27_Zero(field) == ~IsNone(field) /\ field.v = <<>>

\* the config with every field that is set to the empty list left unset
C27_Unset(config) ==
    AdUpdateConfig(IF C27_Zero(config.headlines) THEN None ELSE config.headlines,
                   IF C27_Zero(config.descriptions) THEN None ELSE config.descriptions,
                   IF C27_Zero(config.final_urls) THEN None ELSE config.final_urls)

(* C27: an Ad update whose config sets a sub-field to the empty list       *)
(* submits the operation and the mask of the update that leaves the        *)
(* sub-field unset: the mask does not name the sub-field, and the request  *)
(* is sent all the same.                                                   *)
C27_ZeroValueAsUnset ==
    (/\ call.op \in {"update_ad_urls", "_update_responsive_search_ad"}
     /\ \/ C27_Zero(C27_Config.headlines)
        \/ C27_Zero(C27_Config.descriptions)
        \/ C27_Zero(C27_Config.final_urls)) =>
        /\ Len(call.remote) = 1
        /\ call.remote[1].request.operations =
              <<update_operation(call.id, C27_Unset(C27_Config))>>
        /\ LET mask == call.remote[1].request.operations[1].update_mask
           IN /\ C27_Zero(C27_Config.final_urls) => "final_urls" \notin mask
              /\ C27_Zero(C27_Config.headlines)
                    => "responsive_search_ad.headlines" \notin mask
              /\ C27_Zero(C27_Config.descriptions)
                    => "responsive_search_ad.descriptions" \notin mask

\* update_ad_urls with no URL at all: a request with nothing but the name
C27_Witness ==
    /\ call.op = "update_ad_urls"
    /\ call.arg = <<>>
    /\ ~IsNone(call.id)
    /\ Len(call.remote) = 1
    /\ call.remote[1].request.operations[1].update_mask = {"resource_name"}

-----------------------------------------------------------------------------
\* the final_urls of an operation the Ad facade submits
C29_FinalUrls(operation) ==
    IF operation.kind = "AdOperation.update" THEN operation.update.final_urls
    ELSE operation.final_urls

(* C29: every URL in the final_urls of an operation the Ad facade submits, *)
(* by create_responsive_search_ad or by update_ad_urls, starts with        *)
(* http:// or https://: a URL that validate_url refuses is never sent.     *)
C29_SubmittedUrlsHaveScheme ==
    \A r \in 1..Len(call.remote) :
        \A o \in 1..Len(call.remote[r].request.operations) :
            LET urls == C29_FinalUrls(call.remote[r].request.operations[o])
            IN \A u \in 1..Len(urls) :
                  StartsWith(urls[u], HTTP) \/ StartsWith(urls[u], HTTPS)

-----------------------------------------------------------------------------
(* C30: a value other than None that add_keywords_to_googleads or          *)
(* add_negative_keywords_to_googleads returns is a pair (error, pairs);    *)
(* error is the raised exception iff the remote call failed, and pairs is  *)
(* empty whenever error is set, on the negative path as on the positive.   *)
C30_ReturnsPair ==
    (/\ kwCall.op \in {"add_keywords_to_googleads",
                       "add_negative_keywords_to_googleads"}
     /\ kwCall.ret # RetNone) =>
        /\ kwCall.ret.kind = "tuple"
        /\ kwCall.remote # <<>>
        /\ IF kwCall.remote[1].result.raises
           THEN /\ kwCall.ret.error = Some(kwCall.remote[1].result.ex)
                /\ kwCall.ret.pairs = <<>>
           ELSE IsNone(kwCall.ret.error)

-----------------------------------------------------------------------------
(* C28: regenerate_headline returns the given item unchanged and without   *)
(* a request to the service when its headline has at most 29 characters;   *)
(* otherwise what it returns has the keyword of the item and a headline of *)
(* at most 29 characters that is not one of the headlines accepted so far  *)
(* (or the call raises).                                                   *)
C28_RegeneratedAccepted ==
    /\ regen.pc \in {"idle", "calling", "returned", "raised"}
    /\ regen.pc = "returned" =>
          IF Len(regen.item.headline) <= 29
          THEN regen.result = Some(regen.item) /\ regen.requests = 0
          ELSE /\ regen.result.v.keyword = regen.item.keyword
               /\ Len(regen.result.v.headline) <= 29
               /\ \A i \in 1..Len(regen.accepted) :
                     regen.accepted[i] # regen.result.v.headline

====
